---- MODULE Spec2Model ----
(***************************************************************************)
(* Chronotheus: the query fan-out and synthesis engine of the proxy        *)
(* (proxy/handlers.go, proxy/utils.go).  One client request at a time is   *)
(* taken through handleQuery / handleQueryRange: selector extraction,      *)
(* matcher cleanup, window planning, one upstream call per planned window, *)
(* deduplication, synthesis, selection and emission.                       *)
(*                                                                         *)
(* Text (query expressions, match[] entries) is a sequence of tokens, each *)
(* token a fixed run of characters, cut so that every regular expression   *)
(* of the source matches on token boundaries.                              *)
(***************************************************************************)
EXTENDS Integers, Sequences, FiniteSets, TLC

VARIABLES
    upstream,      \* the backend's behaviour, fixed for a run (deterministic upstream)
    pc,            \* position of the handler: "idle" | "fetch" | "done" | "panic"
    req,           \* the client's request as received
    isRange,       \* TRUE in handleQueryRange, FALSE in handleQuery
    params,        \* the working parameter multimap (url.Values)
    requestedTf,   \* extractSelectors: window selector ("" when none)
    command,       \* extractSelectors: command selector ("" when none)
    plan,          \* offsets/timeframes of the proxy the fetch loop ranges over
    idx,           \* number of loop iterations of fetchWindows* done
    all,           \* the pool built by fetchWindows*
    sent,          \* upstream requests issued for the current request, in order
    constructed,   \* merged, before the final filterByTimeframe
    response,      \* result list written by writeJSON
    labelUpstream, \* the backend the path of the label request in hand names
    lpc,           \* position of a label handler: "idle" | "done" | "panic"
    lreq,          \* the client's label request as received
    lsent,         \* upstream requests issued for the current label request
    lresp,         \* what the label handler wrote to the client
    labelValuesCache, \* the package-level cache of handleLabelValues
    sitems,        \* the matchers a client wrote between the braces of stext
    stext,         \* a parameter value handed to the matcher cleanup
    slabel,        \* the label the cleanup is asked to strip
    sout,          \* the value after one, two, ... cleanups of slabel
    squery,        \* the value after the two cleanups of the query handlers
    spc,           \* position of a synthesis on its own: "idle" | "ready" | "done" | "panic"
    srange,        \* TRUE when the pool holds range series
    sstart,        \* the client's time (instant) or start (range) the pool answers
    spool,         \* a pool of fetched series handed to the synthesis
    ssynth,        \* the list the synthesis builds from spool
    aborted,       \* upstream requests sent when the client went away, -1 while it is there
    ppc,           \* position of a parameter function on its own: "idle" | "ready" | "done"
    pin,           \* the parameter multimap (url.Values) handed to the function
    pout,          \* what the function returned
    bufs,          \* the backing arrays of the buffers made for seriesBufferPool
    pooled,        \* the buffers seriesBufferPool holds
    made,          \* number of buffers the pool's New has made
    rq             \* the range requests that fetch into a pooled buffer

queryVars == <<upstream, pc, req, isRange, params, requestedTf, command, plan, idx,
               all, sent, constructed, response>>

labelVars == <<labelUpstream, lpc, lreq, lsent, lresp, labelValuesCache>>

stripVars == <<sitems, stext, slabel, sout, squery>>

synthVars == <<spc, srange, sstart, spool, ssynth>>

connVars == <<aborted>>

paramVars == <<ppc, pin, pout>>

poolVars == <<bufs, pooled, made, rq>>

vars == <<queryVars, labelVars, stripVars, synthVars, connVars, paramVars, poolVars>>

----------------------------------------------------------------------------
(* Program constants *)

Week == 604800

OVERRIDE == "DONT_REMOVE_UNUSED_HISTORICS"

\* NewChronoProxyWithConfig: timeframes and offsets, index-aligned
Timeframes == <<"current", "7days", "14days", "21days", "28days">>

Offsets == <<0, 7 * 24 * 3600, 14 * 24 * 3600, 21 * 24 * 3600, 28 * 24 * 3600>>

RawTfs == {Timeframes[i] : i \in 1..Len(Timeframes)}

SyntheticTfs == {"lastMonthAverage", "compareAgainstLast28", "percentCompareAgainstLast28"}

NamedTfs == RawTfs \cup SyntheticTfs

OffsetOf(tf) == Offsets[CHOOSE i \in 1..Len(Timeframes) : Timeframes[i] = tf]

----------------------------------------------------------------------------
(* Text *)

Q == "\""

\* characters of \w at the end / start of a token decide \b
WordTokens == {"up", "job", "my_", "_", "command", "chrono_timeframe", "a", "b", "x"}

\* the characters of a label name, cut where a regexp of the source can match
LabelText(name) ==
    CASE name = "_command" -> <<"_", "command">>
      [] name = "my_chrono_timeframe" -> <<"my_", "chrono_timeframe">>
      [] OTHER -> <<name>>

\* name="value"
MatcherText(m) == LabelText(m.name) \o <<"=", Q, m.value, Q>>

RECURSIVE JoinMatchers(_)
JoinMatchers(ms) ==
    IF Len(ms) = 0 THEN <<>>
    ELSE IF Len(ms) = 1 THEN MatcherText(ms[1])
    ELSE MatcherText(ms[1]) \o <<",">> \o JoinMatchers(Tail(ms))

\* the PromQL expression a client writes: up or up{m1,m2,...}
QueryText(ms) ==
    IF Len(ms) = 0 THEN <<"up">> ELSE <<"up", "{">> \o JoinMatchers(ms) \o <<"}">>

StartsWith(s, i, pat) ==
    /\ i >= 1
    /\ i + Len(pat) - 1 <= Len(s)
    /\ \A k \in 1..Len(pat) : s[i + k - 1] = pat[k]

\* index of the first quote at or after j, 0 when there is none
RECURSIVE NextQuote(_, _)
NextQuote(s, j) ==
    IF j > Len(s) THEN 0 ELSE IF s[j] = Q THEN j ELSE NextQuote(s, j + 1)

\* label="[^"]*" starting at i: index of its last token, 0 when no match
MatcherEnd(s, i, label) ==
    IF StartsWith(s, i, label \o <<"=", Q>>)
    THEN NextQuote(s, i + Len(label) + 2)
    ELSE 0

\* re.ReplaceAllString(s, "") for re = ,?label="[^"]*"
RECURSIVE RemoveLabel(_, _, _)
RemoveLabel(s, i, label) ==
    IF i > Len(s) THEN <<>>
    ELSE LET withComma == IF s[i] = "," THEN MatcherEnd(s, i + 1, label) ELSE 0
             bare == MatcherEnd(s, i, label)
             e == IF withComma > 0 THEN withComma ELSE bare
         IN IF e > 0 THEN RemoveLabel(s, e + 1, label)
            ELSE <<s[i]>> \o RemoveLabel(s, i + 1, label)

\* first index at or after i that holds something else than tok
RECURSIVE SkipRun(_, _, _)
SkipRun(s, i, tok) ==
    IF i <= Len(s) /\ s[i] = tok THEN SkipRun(s, i + 1, tok) ELSE i

\* ,+ replaced by ,
RECURSIVE CollapseCommas(_, _)
CollapseCommas(s, i) ==
    IF i > Len(s) THEN <<>>
    ELSE IF s[i] = "," THEN <<",">> \o CollapseCommas(s, SkipRun(s, i, ","))
    ELSE <<s[i]>> \o CollapseCommas(s, i + 1)

\* \{\s*,+ replaced by {
RECURSIVE FixOpenBrace(_, _)
FixOpenBrace(s, i) ==
    IF i > Len(s) THEN <<>>
    ELSE LET sp == SkipRun(s, i + 1, " ")
             cm == SkipRun(s, sp, ",")
         IN IF s[i] = "{" /\ cm > sp
            THEN <<"{">> \o FixOpenBrace(s, cm)
            ELSE <<s[i]>> \o FixOpenBrace(s, i + 1)

\* ,+\s*\} replaced by }
RECURSIVE FixCloseBrace(_, _)
FixCloseBrace(s, i) ==
    IF i > Len(s) THEN <<>>
    ELSE LET cm == SkipRun(s, i, ",")
             sp == SkipRun(s, cm, " ")
         IN IF cm > i /\ sp <= Len(s) /\ s[sp] = "}"
            THEN <<"}">> \o FixCloseBrace(s, sp + 1)
            ELSE <<s[i]>> \o FixCloseBrace(s, i + 1)

\* the body of stripLabelFromParam's loop, on one value
StripValue(s, label) ==
    FixCloseBrace(FixOpenBrace(CollapseCommas(RemoveLabel(s, 1, label), 1), 1), 1)

\* stripLabelFromParam(vals, key, label): every value of vals[key], when present
StripLabelFromParam(vals, key, label) ==
    IF key \in DOMAIN vals
    THEN [vals EXCEPT ![key] = [i \in 1..Len(vals[key]) |-> StripValue(vals[key][i], label)]]
    ELSE vals

----------------------------------------------------------------------------
(* url.Values *)

\* vals.Get(key): the first value, "" (the empty text) when there is none
Get(vals, key) ==
    IF key \in DOMAIN vals /\ Len(vals[key]) > 0 THEN vals[key][1] ELSE <<>>

\* vals.Set(key, v)
Set(vals, key, v) == (key :> <<v>>) @@ vals

\* delete(vals, key)
Delete(vals, key) == [k \in DOMAIN vals \ {key} |-> vals[k]]

\* strconv.FormatInt(n, 10): the decimal text of n, kept as one numeral token
FormatInt(n) == <<n>>

\* the wall clock read by parseTime when a time does not parse
NowT == 1700000130

\* parseTime: a decimal numeral parses to its number, anything else is now
ParseTime(s) == IF Len(s) = 1 /\ s[1] \in Int THEN s[1] ELSE NowT

\* parseClientParams for a GET request: the URL's query parameters
ParseClientParams(r) == r.values

\* remapMatch
RemapMatch(vals) ==
    IF "match" \in DOMAIN vals /\ Len(vals["match"]) > 0 /\ Get(vals, "match[]") = <<>>
    THEN Delete(("match[]" :> vals["match"]) @@ vals, "match")
    ELSE vals

----------------------------------------------------------------------------
(* Selector extraction *)

RECURSIVE Concat(_)
Concat(toks) == IF Len(toks) = 0 THEN "" ELSE toks[1] \o Concat(Tail(toks))

\* ^label="([^"]+)"$ on a whole match[] entry: the captured value, <<>> when no match
FullMatch(m, label) ==
    LET v == Len(label) + 3
    IN IF /\ StartsWith(m, 1, label \o <<"=", Q>>)
          /\ Len(m) >= v + 1
          /\ NextQuote(m, v) = Len(m)
       THEN <<Concat(SubSeq(m, v, Len(m) - 1))>>
       ELSE <<>>

\* index of the first entry of vs that the regexp matches, 0 when none
RECURSIVE FirstFull(_, _, _)
FirstFull(vs, i, label) ==
    IF i > Len(vs) THEN 0
    ELSE IF FullMatch(vs[i], label) # <<>> THEN i
    ELSE FirstFull(vs, i + 1, label)

\* append(a[:i], a[i+1:]...) in place: the array behind a after the copy
\* (entries after i move one place left, the last place keeps its old entry)
ShiftLeft(a, i) == [k \in 1..Len(a) |-> IF k >= i /\ k < Len(a) THEN a[k + 1] ELSE a[k]]

\* \b before position i: start of text, or a non-word character before it
Boundary(s, i) == i = 1 \/ s[i - 1] \notin WordTokens

\* FindStringSubmatch of \blabel="([^"]+)": the first capture, "" when no match
RECURSIVE FindInline(_, _, _)
FindInline(s, i, label) ==
    IF i > Len(s) THEN ""
    ELSE LET v == i + Len(label) + 2
             e == MatcherEnd(s, i, label)
         IN IF Boundary(s, i) /\ e > v
            THEN Concat(SubSeq(s, v, e - 1))
            ELSE FindInline(s, i + 1, label)

\* detectSelectors
DetectSelectors(vals) ==
    LET q == Get(vals, "query")
    IN [tf |-> FindInline(q, 1, <<"chrono_timeframe">>),
        cmd |-> FindInline(q, 1, <<"_", "command">>)]

\* extractSelectors: the selectors and the multimap it leaves behind
ExtractSelectors(vals) ==
    LET has == "match[]" \in DOMAIN vals
        vs == IF has THEN vals["match[]"] ELSE <<>>
        i1 == FirstFull(vs, 1, <<"chrono_timeframe">>)
        tf1 == IF i1 > 0 THEN FullMatch(vs[i1], <<"chrono_timeframe">>)[1] ELSE ""
        \* the second loop ranges over the old slice header of the same array
        arr == IF i1 > 0 THEN ShiftLeft(vs, i1) ELSE vs
        cur1 == IF i1 > 0 THEN SubSeq(arr, 1, Len(arr) - 1) ELSE vs
        i2 == FirstFull(arr, 1, <<"_", "command">>)
        cmd1 == IF i2 > 0 THEN FullMatch(arr[i2], <<"_", "command">>)[1] ELSE ""
        cur2 == IF i2 > 0
                THEN SubSeq(cur1, 1, i2 - 1) \o SubSeq(cur1, i2 + 1, Len(cur1))
                ELSE cur1
        vals2 == IF has THEN [vals EXCEPT !["match[]"] = cur2] ELSE vals
        inl == DetectSelectors(vals2)
    IN [tf |-> IF tf1 = "" THEN inl.tf ELSE tf1,
        cmd |-> IF cmd1 = "" THEN inl.cmd ELSE cmd1,
        vals |-> vals2]

----------------------------------------------------------------------------
(* Window planning: the head of handleQuery / handleQueryRange *)

Window(i) == [tf |-> Timeframes[i], offset |-> Offsets[i]]

\* the proxy the fetch loop runs on: effProxy for a single window, else p
\* a handler that falls back to all five windows when no raw name matches
PlanWindowsUnknownAsAll(tf) ==
    IF tf \in RawTfs
    THEN LET hit == {i \in 1..Len(Timeframes) : Timeframes[i] = tf}
         IN <<Window(CHOOSE i \in hit : \A j \in hit : i <= j)>>
    ELSE [i \in 1..Len(Timeframes) |-> Window(i)]

PlanWindows(tf) ==
    IF tf # "" /\ tf \notin SyntheticTfs
    THEN LET hit == {i \in 1..Len(Timeframes) : Timeframes[i] = tf}
         IN IF hit = {} THEN <<>> ELSE <<Window(CHOOSE i \in hit : \A j \in hit : i <= j)>>
    ELSE [i \in 1..Len(Timeframes) |-> Window(i)]

\* everything the handler does before its first upstream call
HandlerHead(r, range) ==
    LET p1 == RemapMatch(ParseClientParams(r))
        sel == ExtractSelectors(p1)
        p2 == StripLabelFromParam(sel.vals, "query", <<"chrono_timeframe">>)
        p3 == StripLabelFromParam(p2, "query", <<"command">>)
        p4 == IF range /\ Get(p3, "step") = <<>> THEN Set(p3, "step", <<60>>) ELSE p3
    IN [params |-> p4, tf |-> sel.tf, cmd |-> sel.cmd, plan |-> PlanWindows(sel.tf)]

----------------------------------------------------------------------------
(* Sample values.  A value travels as text: a decimal numeral is <<n, d>>   *)
(* (the number n/d in lowest terms, d > 0), any other text is <<>>.         *)

Abs(n) == IF n < 0 THEN 0 - n ELSE n

RECURSIVE GCD(_, _)
GCD(a, b) == IF b = 0 THEN a ELSE GCD(b, a % b)

Rat(n, d) ==
    LET g == GCD(Abs(n), Abs(d))
        sg == IF d < 0 THEN 0 - 1 ELSE 1
    IN IF n = 0 THEN <<0, 1>> ELSE <<(sg * n) \div g, (sg * d) \div g>>

RAdd(x, y) == Rat(x[1] * y[2] + y[1] * x[2], x[2] * y[2])

RSub(x, y) == Rat(x[1] * y[2] - y[1] * x[2], x[2] * y[2])

RMul(x, y) == Rat(x[1] * y[1], x[2] * y[2])

\* x / y for y # 0
RDiv(x, y) == Rat(x[1] * y[2], x[2] * y[1])

\* strconv.ParseFloat: the number and whether the text was a numeral
ParseFloat(v) == IF Len(v) = 2 THEN [ok |-> TRUE, f |-> v] ELSE [ok |-> FALSE, f |-> <<0, 1>>]

\* smallest power of ten p with a * p \div d of at least six digits
RECURSIVE Scale6(_, _, _)
Scale6(a, d, p) == IF (a * p) \div d >= 100000 THEN p ELSE Scale6(a, d, p * 10)

\* fmt.Sprintf("%g", f): f rounded to six significant digits, as a numeral
FormatG(f) ==
    LET a == Abs(f[1])
        d == f[2]
        p == Scale6(a, d, 1)
        q == (2 * a * p + d) \div (2 * d)
    IN IF f[1] = 0 THEN <<0, 1>>
       ELSE Rat((IF f[1] < 0 THEN 0 - q ELSE q), p)

----------------------------------------------------------------------------
(* The upstream, a fixture: it answers from the time anchors of a request, *)
(* the same way every time it is asked (it does not evaluate the query).   *)

\* end of the week that holds every client anchor of the model
TRef == NowT + 270

\* how many whole weeks before the client's week the instant t lies
WeekIdx(t) == (TRef - t) \div Week

UpValue(job, t) == <<(IF job = "a" THEN 1 ELSE 10) * (WeekIdx(t) + 1), 1>>

\* the series the backend holds at instant t
UpJobs(up, t) == IF WeekIdx(t) \in up.bWeeks THEN <<"a", "b">> ELSE <<"a">>

\* sample times of a range request
RangeTimes(start, end, step) ==
    IF end < start THEN <<>> ELSE [j \in 1..((end - start) \div step + 1) |-> start + (j - 1) * step]

\* GET <upstream>/api/v1/query?...: one sample per series at the requested time
UpstreamInstant(up, qs) ==
    LET t == ParseTime(Get(qs, "time"))
        jobs == UpJobs(up, t)
    IN IF WeekIdx(t) \in up.fail THEN [ok |-> FALSE, result |-> <<>>]
       ELSE IF WeekIdx(t) \in up.bare
       \* result entries without "value": the [2]interface{} stays [nil, nil]
       THEN [ok |-> TRUE,
             result |-> [i \in 1..Len(jobs) |-> [metric |-> [job |-> jobs[i]], value |-> <<>>]]]
       ELSE [ok |-> TRUE,
             result |-> [i \in 1..Len(jobs) |->
                           [metric |-> [job |-> jobs[i]], value |-> <<t, UpValue(jobs[i], t)>>]]]

\* GET <upstream>/api/v1/query_range?...: samples at start, start+step, ... <= end
UpstreamRange(up, qs) ==
    LET start == ParseTime(Get(qs, "start"))
        end == ParseTime(Get(qs, "end"))
        step == Get(qs, "step")[1]
        ts == RangeTimes(start, end, step)
        jobs == UpJobs(up, start)
    IN IF WeekIdx(start) \in up.fail THEN [ok |-> FALSE, result |-> <<>>]
       ELSE IF WeekIdx(start) \in up.bare
       \* result entries without "values": the slice stays nil
       THEN [ok |-> TRUE,
             result |-> [i \in 1..Len(jobs) |-> [metric |-> [job |-> jobs[i]], values |-> <<>>]]]
       ELSE [ok |-> TRUE,
             result |-> [i \in 1..Len(jobs) |->
                           [metric |-> [job |-> jobs[i]],
                            values |-> [j \in 1..Len(ts) |-> <<ts[j], UpValue(jobs[i], ts[j])>>]]]]

----------------------------------------------------------------------------
(* Fan-out fetch *)

\* the keys of the model, in one of the orders a range over url.Values takes
KeyOrder ==
    <<"query", "time", "start", "end", "step", "match", "match[]", "foo", "foo[]">>

\* strings.HasSuffix(k, "[]") over the keys of the model
HasArraySuffix(k) == k \in {"match[]", "foo[]"}

\* the parameter name buildQueryString writes for key k
QsName(k, vs) == IF Len(vs) > 1 /\ ~HasArraySuffix(k) THEN k \o "[]" ELSE k

\* the values written under the name n, the keys ranged over in the given order
RECURSIVE QsValues(_, _, _, _)
QsValues(vals, n, order, i) ==
    IF i > Len(order) THEN <<>>
    ELSE LET k == order[i]
         IN (IF k \in DOMAIN vals /\ QsName(k, vals[k]) = n THEN vals[k] ELSE <<>>)
            \o QsValues(vals, n, order, i + 1)

\* buildQueryString with the map ranged over in the given order, read back
\* the way the receiving server parses it (url.ParseQuery undoes QueryEscape)
BuildQueryStringIn(vals, order) ==
    LET names == {QsName(k, vals[k]) : k \in {x \in DOMAIN vals : Len(vals[x]) > 0}}
    IN [n \in names |-> QsValues(vals, n, order, 1)]

\* buildQueryString for the handlers: none of their requests holds a key
\* together with its [] form, so the order of the range plays no part
BuildQueryString(vals) == BuildQueryStringIn(vals, KeyOrder)

\* copyMetric(m) with m[k] = v
WithLabel(m, k, v) == (k :> v) @@ m

\* a tagging that carries the command along only when it is the override
TaggedOverrideOnly(m, tf, cmd) ==
    LET m1 == WithLabel(m, "chrono_timeframe", tf)
    IN IF cmd = OVERRIDE THEN WithLabel(m1, "_command", cmd) ELSE m1

\* the labels fetchWindows* gives a fetched series
Tagged(m, tf, cmd) ==
    LET m1 == WithLabel(m, "chrono_timeframe", tf)
    IN IF cmd # "" THEN WithLabel(m1, "_command", cmd) ELSE m1

\* one iteration of the loop of fetchWindowsInstant
FetchInstantIter(up, vals, pool, w, cmd) ==
    LET base == ParseTime(Get(vals, "time"))
        vals2 == Set(vals, "time", FormatInt(base - w.offset))
        qs == BuildQueryString(vals2)
        resp == UpstreamInstant(up, qs)
        \* s.Value[0].(float64) on a nil interface: the type assertion panics
        panics == resp.ok /\ \E i \in 1..Len(resp.result) : resp.result[i].value = <<>>
        got == [i \in 1..Len(resp.result) |->
                  [metric |-> Tagged(resp.result[i].metric, w.tf, cmd),
                   value |-> <<resp.result[i].value[1] + w.offset, resp.result[i].value[2]>>]]
    IN [params |-> vals2, qs |-> qs, panics |-> panics,
        all |-> IF resp.ok /\ ~panics THEN pool \o got ELSE pool]

\* one iteration of the loop of fetchWindowsRange
FetchRangeIter(up, vals, pool, w, cmd) ==
    LET start == ParseTime(Get(vals, "start")) - w.offset
        end == ParseTime(Get(vals, "end")) - w.offset
        vals2 == Set(Set(vals, "start", FormatInt(start)), "end", FormatInt(end))
        qs == BuildQueryString(vals2)
        resp == UpstreamRange(up, qs)
        got == [i \in 1..Len(resp.result) |->
                  [metric |-> Tagged(resp.result[i].metric, w.tf, cmd),
                   values |-> [j \in 1..Len(resp.result[i].values) |->
                                 <<resp.result[i].values[j][1] + w.offset,
                                   resp.result[i].values[j][2]>>]]]
    IN [params |-> vals2, qs |-> qs, panics |-> FALSE,
        all |-> IF resp.ok THEN pool \o got ELSE pool]

----------------------------------------------------------------------------
(* Signature, deduplication, synthesis *)

SyntheticLabels == {"chrono_timeframe", "_command"}

\* signature: the labels without the synthetic ones, in canonical (sorted-key) form
Signature(m) == [k \in DOMAIN m \ SyntheticLabels |-> m[k]]

\* the signatures the fixture can produce
Signatures == {[job |-> "a"], [job |-> "b"]}

\* the orders in which a Go map keyed by signature can be ranged over
MapOrders == {o \in [1..Cardinality(Signatures) -> Signatures] :
                \A i, j \in DOMAIN o : i # j => o[i] # o[j]}

HasSig(s, sig) == Signature(s.metric) = sig

RECURSIVE GroupsInOrder(_, _, _)
GroupsInOrder(list, ord, i) ==
    IF i > Len(ord) THEN <<>>
    ELSE LET Same(s) == HasSig(s, ord[i])
         IN SelectSeq(list, Same) \o GroupsInOrder(list, ord, i + 1)

\* the series of list without those that equal an earlier one
RECURSIVE Collapsed(_)
Collapsed(list) ==
    IF Len(list) = 0 THEN <<>>
    ELSE LET front == Collapsed(SubSeq(list, 1, Len(list) - 1))
             last == list[Len(list)]
         IN IF \E i \in 1..Len(front) : front[i] = last THEN front ELSE Append(front, last)

\* a deduplication that drops the series equal to an earlier one
DedupeSeriesCollapsing(list, ord) == GroupsInOrder(Collapsed(list), ord, 1)

\* dedupeSeries: group by signature, flatten the groups in map order
DedupeSeries(list, ord) == GroupsInOrder(list, ord, 1)

\* proxyTimeframes
ProxyTimeframes == <<"current", "7days", "14days", "21days", "28days">>

\* the points of a series: s["values"] or the one s["value"]
Points(s, range) == IF range THEN s.values ELSE <<s.value>>

RECURSIVE FlatPoints(_, _)
FlatPoints(grp, range) ==
    IF Len(grp) = 0 THEN <<>> ELSE Points(grp[1], range) \o FlatPoints(Tail(grp), range)

Minute(ts) == (ts \div 60) * 60

\* sums[minute] over the points whose value parses
RECURSIVE SumAt(_, _)
SumAt(pts, m) ==
    IF Len(pts) = 0 THEN <<0, 1>>
    ELSE LET v == ParseFloat(pts[1][2])
             rest == SumAt(Tail(pts), m)
         IN IF v.ok /\ Minute(pts[1][1]) = m THEN RAdd(v.f, rest) ELSE rest

RECURSIVE SortedAsc(_)
SortedAsc(S) ==
    IF S = {} THEN <<>>
    ELSE LET lo == CHOOSE x \in S : \A y \in S : x <= y
         IN <<lo>> \o SortedAsc(S \ {lo})

\* an average over the samples observed in the minute
AveragePointsByCount(grp, range) ==
    LET pts == FlatPoints(grp, range)
        ok == {j \in 1..Len(pts) : ParseFloat(pts[j][2]).ok}
        mins == SortedAsc({Minute(pts[i][1]) : i \in ok})
        Seen(m) == Cardinality({j \in ok : Minute(pts[j][1]) = m})
    IN [i \in 1..Len(mins) |->
          <<mins[i], FormatG(RDiv(SumAt(pts, mins[i]), <<Seen(mins[i]), 1>>))>>]

\* the body of buildLastMonthAverage's loop over groups: ptsOut of one group
AveragePoints(grp, range) ==
    LET n == Len(ProxyTimeframes) - 1
        pts == FlatPoints(grp, range)
        mins == SortedAsc({Minute(pts[i][1]) : i \in {j \in 1..Len(pts) : ParseFloat(pts[j][2]).ok}})
    IN [i \in 1..Len(mins) |-> <<mins[i], FormatG(RDiv(SumAt(pts, mins[i]), <<n, 1>>))>>]

Historical(s) == s.metric["chrono_timeframe"] # "current"

RECURSIVE AverageInOrder(_, _, _, _)
AverageInOrder(hist, range, ord, i) ==
    IF i > Len(ord) THEN <<>>
    ELSE LET Same(s) == HasSig(s, ord[i])
             grp == SelectSeq(hist, Same)
             ptsOut == AveragePoints(grp, range)
             metric == WithLabel(ord[i], "chrono_timeframe", "lastMonthAverage")
             one == IF range THEN [metric |-> metric, values |-> ptsOut]
                    ELSE [metric |-> metric, value |-> ptsOut[Len(ptsOut)]]
         IN (IF Len(grp) = 0 THEN <<>> ELSE <<one>>) \o AverageInOrder(hist, range, ord, i + 1)

\* buildLastMonthAverage
BuildLastMonthAverage(seriesList, range, ord) ==
    AverageInOrder(SelectSeq(seriesList, Historical), range, ord, 1)

\* ptsOut[len(ptsOut)-1] on an empty ptsOut: the instant branch indexes out of range
AveragePanics(seriesList, range) ==
    /\ ~range
    /\ \E sig \in Signatures :
          LET Same(s) == HasSig(s, sig)
              grp == SelectSeq(SelectSeq(seriesList, Historical), Same)
          IN Len(grp) > 0 /\ Len(AveragePoints(grp, range)) = 0

\* the last series of list with this signature (map assignment: last write wins)
LastWith(list, sig) ==
    LET hit == {i \in 1..Len(list) : HasSig(list[i], sig)}
    IN list[CHOOSE i \in hit : \A j \in hit : j <= i]

IsCurrent(s) == s.metric["chrono_timeframe"] = "current"

\* indexBySignature
\* an index that takes the series of any window for the current one
IndexAnyWindow(list, avgList) ==
    LET sigs == {Signature(list[i].metric) : i \in 1..Len(list)}
        avgSigs == {Signature(avgList[i].metric) : i \in 1..Len(avgList)}
    IN [cur |-> [sig \in sigs |-> LastWith(list, sig)],
        avg |-> [sig \in avgSigs |-> LastWith(avgList, sig)]]

IndexBySignature(list, avgList) ==
    LET cur == SelectSeq(list, IsCurrent)
        curSigs == {Signature(cur[i].metric) : i \in 1..Len(cur)}
        avgSigs == {Signature(avgList[i].metric) : i \in 1..Len(avgList)}
    IN [cur |-> [sig \in curSigs |-> LastWith(cur, sig)],
        avg |-> [sig \in avgSigs |-> LastWith(avgList, sig)]]

\* avgByTs[ts], zero when missing
AvgAt(aVals, ts) ==
    LET hit == {i \in 1..Len(aVals) : aVals[i][1] = ts}
    IN IF hit = {} THEN <<0, 1>>
       ELSE ParseFloat(aVals[CHOOSE i \in hit : \A j \in hit : j <= i][2]).f

Diff(vc, va) == RSub(vc, va)

\* a percent that falls back on the current value when the average is zero
PercentOfCurrent(vc, va) ==
    IF va[1] # 0 THEN RMul(RDiv(RSub(vc, va), va), <<100, 1>>) ELSE RMul(vc, <<100, 1>>)

Percent(vc, va) == IF va[1] # 0 THEN RMul(RDiv(RSub(vc, va), va), <<100, 1>>) ELSE <<0, 1>>

\* the delta or the percent of one pair of values, by the kind of series built
Combine(pct, vc, va) == IF pct THEN Percent(vc, va) ELSE Diff(vc, va)

\* the series appendCompare / appendPercent builds for one signature
Derived(c, a, tf, cmd, range, pct) ==
    LET nm0 == WithLabel(c.metric, "chrono_timeframe", tf)
        nm == IF cmd # "" THEN WithLabel(nm0, "_command", cmd) ELSE nm0
    IN IF ~range
       THEN [metric |-> nm,
             value |-> <<c.value[1],
                         FormatG(Combine(pct, ParseFloat(c.value[2]).f, ParseFloat(a.value[2]).f))>>]
       ELSE [metric |-> nm,
             values |-> [j \in 1..Len(c.values) |->
                           <<c.values[j][1],
                             FormatG(Combine(pct, ParseFloat(c.values[j][2]).f,
                                       AvgAt(a.values, c.values[j][1])))>>]]

RECURSIVE DerivedInOrder(_, _, _, _, _, _, _, _)
DerivedInOrder(curMap, avgMap, tf, cmd, range, pct, ord, i) ==
    IF i > Len(ord) THEN <<>>
    ELSE (IF ord[i] \in DOMAIN curMap /\ ord[i] \in DOMAIN avgMap
          THEN <<Derived(curMap[ord[i]], avgMap[ord[i]], tf, cmd, range, pct)>>
          ELSE <<>>)
         \o DerivedInOrder(curMap, avgMap, tf, cmd, range, pct, ord, i + 1)

\* appendCompare
AppendCompare(base, curMap, avgMap, cmd, range, ord) ==
    base \o DerivedInOrder(curMap, avgMap, "compareAgainstLast28", cmd, range, FALSE, ord, 1)

\* a percent synthesis that labels its series with a name outside the windows
AppendPercentMisnamed(base, curMap, avgMap, cmd, range, ord) ==
    base \o DerivedInOrder(curMap, avgMap, "percentCompare", cmd, range, TRUE, ord, 1)

\* appendPercent
AppendPercent(base, curMap, avgMap, cmd, range, ord) ==
    base \o DerivedInOrder(curMap, avgMap, "percentCompareAgainstLast28", cmd, range, TRUE, ord, 1)

HasTf(s, tf) == s.metric["chrono_timeframe"] = tf

\* a filter that keeps the other windows
FilterByTimeframeInverted(list, tf) ==
    LET Keep(s) == ~HasTf(s, tf) IN SelectSeq(list, Keep)

\* filterByTimeframe
FilterByTimeframe(list, tf) ==
    LET Keep(s) == HasTf(s, tf) IN SelectSeq(list, Keep)

----------------------------------------------------------------------------
(* The tail of handleQuery / handleQueryRange: from the pool to the result *)

\* merged as it stands before the final filter; o gives the map orders
\* a handler that leaves the percent series out of the unselected response
MergeWithoutPercent(pool, tf, cmd, range, o) ==
    IF tf # "" /\ tf \notin SyntheticTfs
    THEN pool
    ELSE LET merged == DedupeSeries(pool, o.dedupe)
             avg == BuildLastMonthAverage(merged, range, o.average)
             ix == IndexBySignature(merged, avg)
         IN IF cmd = OVERRIDE THEN merged
            ELSE IF tf = ""
            THEN merged \o avg
                 \o AppendCompare(<<>>, ix.cur, ix.avg, "", range, o.compare)
            ELSE IF tf = "lastMonthAverage" THEN avg
            ELSE IF tf = "compareAgainstLast28"
            THEN AppendCompare(<<>>, ix.cur, ix.avg, "", range, o.compare)
            ELSE AppendPercent(<<>>, ix.cur, ix.avg, "", range, o.percent)

Merge(pool, tf, cmd, range, o) ==
    IF tf # "" /\ tf \notin SyntheticTfs
    THEN pool
    ELSE LET merged == DedupeSeries(pool, o.dedupe)
             avg == BuildLastMonthAverage(merged, range, o.average)
             ix == IndexBySignature(merged, avg)
         IN IF cmd = OVERRIDE THEN merged
            ELSE IF tf = ""
            THEN merged \o avg
                 \o AppendCompare(<<>>, ix.cur, ix.avg, "", range, o.compare)
                 \o AppendPercent(<<>>, ix.cur, ix.avg, "", range, o.percent)
            ELSE IF tf = "lastMonthAverage" THEN avg
            ELSE IF tf = "compareAgainstLast28"
            THEN AppendCompare(<<>>, ix.cur, ix.avg, "", range, o.compare)
            ELSE AppendPercent(<<>>, ix.cur, ix.avg, "", range, o.percent)

\* buildLastMonthAverage is called, and indexes an empty ptsOut
MergePanics(pool, tf, cmd, range) ==
    /\ tf = "" \/ tf \in SyntheticTfs
    /\ cmd # OVERRIDE
    /\ AveragePanics(pool, range)

\* the result handed to writeJSON
Select(merged, tf, cmd) ==
    IF tf # "" /\ cmd # OVERRIDE THEN FilterByTimeframe(merged, tf) ELSE merged

----------------------------------------------------------------------------
(* Clients and backends of the model *)

\* how many steps the client's range spans
RangeSteps == 2

ClientTime == NowT - 130

TfValues == NamedTfs \cup {"bogus"}

CmdValues == {OVERRIDE, "dryRun"}

JobMatcher == [name |-> "job", value |-> "a"]

TfMatcher(v) == [name |-> "chrono_timeframe", value |-> v]

CmdMatcher(c) == [name |-> "_command", value |-> c]

MatcherNames == {"job", "chrono_timeframe", "_command"}

MatcherChoices ==
    {JobMatcher} \cup {TfMatcher(v) : v \in TfValues} \cup {CmdMatcher(c) : c \in CmdValues}

\* matcher lists a client writes: each label at most once, in any order
MatcherLists ==
    {ms \in UNION {[1..n -> MatcherChoices] : n \in 0..Cardinality(MatcherNames)} :
        \A i, j \in DOMAIN ms : i # j => ms[i].name # ms[j].name}

\* match[] lists a client sends along with the query
MatchLists ==
    {<<TfMatcher("7days")>>,
     <<CmdMatcher(OVERRIDE)>>,
     <<TfMatcher("14days"), CmdMatcher(OVERRIDE)>>,
     <<JobMatcher, TfMatcher("28days")>>}

IsWindowMatcher(m) == m.name = "chrono_timeframe"

NotWindowMatcher(m) == ~IsWindowMatcher(m)

Texts(ml) == [i \in 1..Len(ml) |-> MatcherText(ml[i])]

\* the parameters of a request: query, and match[] / match when key is given
Values(ms, key, ml) ==
    IF key = "" THEN ("query" :> <<QueryText(ms)>>)
    ELSE ("query" :> <<QueryText(ms)>>) @@ (key :> Texts(ml))

\* a client request: what is sent (values), the matchers written inline in
\* the query (matchers), and what the same client sends when it names no
\* window (plain)
Request(ms, key, ml, anchors) ==
    [values |-> anchors @@ Values(ms, key, ml),
     matchers |-> ms,
     plain |-> anchors @@ Values(SelectSeq(ms, NotWindowMatcher), key,
                                 SelectSeq(ml, NotWindowMatcher))]

Shapes ==
    {<<ms, "", <<>>>> : ms \in MatcherLists}
    \cup {<<ms, "match[]", ml>> : ms \in {<<>>, <<TfMatcher("current")>>}, ml \in MatchLists}
    \cup {<<<<>>, "match", <<TfMatcher("21days")>>>>}

InstantAnchors == {<<>>, ("time" :> <<FormatInt(ClientTime)>>)}

RangeAnchors ==
    {("start" :> <<FormatInt(t)>>) @@ ("end" :> <<FormatInt(t + RangeSteps * 60)>>) :
        t \in {ClientTime, Minute(ClientTime)}}

InstantRequests == {Request(sh[1], sh[2], sh[3], a) : sh \in Shapes, a \in InstantAnchors}

RangeRequests == {Request(sh[1], sh[2], sh[3], a) : sh \in Shapes, a \in RangeAnchors}

NoRequest == [values |-> <<>>, matchers |-> <<>>, plain |-> <<>>]

\* week indices of the anchors a request for the four past windows can reach
PastWeeks == {1, 2, 3, 4, 6, 10}

\* bare: the weeks whose answer holds result entries without value / values
Upstreams ==
    [fail : {{}, {0}, {1}, PastWeeks}, bWeeks : {{}, {0, 1, 3}}, bare : {{}}]
    \cup {[fail |-> {}, bWeeks |-> {}, bare |-> {1}]}

----------------------------------------------------------------------------
(* The state machine *)

\* no label request has been served
LabelIdle ==
    /\ labelUpstream = "ok"
    /\ lpc = "idle"
    /\ lreq = <<>>
    /\ lsent = <<>>
    /\ lresp = <<>>
    /\ labelValuesCache = <<>>

\* no parameter value is being cleaned outside a handler
StripIdle ==
    /\ sitems = <<>>
    /\ stext = <<>>
    /\ slabel = <<>>
    /\ sout = <<>>
    /\ squery = <<>>

\* no pool is being synthesized outside a handler
SynthIdle ==
    /\ spc = "idle"
    /\ srange = FALSE
    /\ sstart = 0
    /\ spool = <<>>
    /\ ssynth = <<>>

\* no query request has been received
\* no client has gone away
ConnIdle == aborted = -1

MaxBuffers == 2

MaxConcurrent == 2

\* the windows a pooled fetch appends a series for
PoolWindows == 2

\* a place of a backing array that holds nil
NilEntry == <<0, 0>>

\* the series request r fetched for its k-th window
SeriesOf(r, k) == <<r, k>>

\* no range request is in the pooled fetch and the pool is empty
PoolIdle ==
    /\ bufs = [b \in 1..MaxBuffers |-> [k \in 1..PoolWindows |-> NilEntry]]
    /\ pooled = {}
    /\ made = 0
    /\ rq = [r \in 1..MaxConcurrent |-> [pc |-> "idle", buf |-> 0, len |-> 0]]

\* no parameter function runs outside a handler
ParamIdle ==
    /\ ppc = "idle"
    /\ pin = <<>>
    /\ pout = <<>>

QueryIdle ==
    /\ upstream \in {u \in Upstreams : u.fail = {} /\ u.bWeeks = {} /\ u.bare = {}}
    /\ pc = "idle"
    /\ req = NoRequest
    /\ isRange = FALSE
    /\ params = <<>>
    /\ requestedTf = ""
    /\ command = ""
    /\ plan = <<>>
    /\ idx = 0
    /\ all = <<>>
    /\ sent = <<>>
    /\ constructed = <<>>
    /\ response = <<>>

Init ==
    /\ ConnIdle
    /\ ParamIdle
    /\ PoolIdle
    /\ LabelIdle
    /\ StripIdle
    /\ SynthIdle
    /\ upstream \in Upstreams
    /\ pc = "idle"
    /\ req = NoRequest
    /\ isRange = FALSE
    /\ params = <<>>
    /\ requestedTf = ""
    /\ command = ""
    /\ plan = <<>>
    /\ idx = 0
    /\ all = <<>>
    /\ sent = <<>>
    /\ constructed = <<>>
    /\ response = <<>>

\* a request arrives: the handler runs up to its first upstream call
Begin(r, range) ==
    LET h == HandlerHead(r, range)
    IN /\ pc = "idle"
       /\ req' = r
       /\ isRange' = range
       /\ params' = h.params
       /\ requestedTf' = h.tf
       /\ command' = h.cmd
       /\ plan' = h.plan
       /\ idx' = 0
       /\ all' = <<>>
       /\ sent' = <<>>
       /\ constructed' = <<>>
       /\ response' = <<>>
       /\ pc' = "fetch"
       /\ UNCHANGED <<upstream, labelVars, stripVars, synthVars, connVars, paramVars, poolVars>>

\* handleQuery, up to the fetch loop
HandleQuery == \E r \in InstantRequests : Begin(r, FALSE)

\* handleQueryRange, up to the fetch loop
HandleQueryRange == \E r \in RangeRequests : Begin(r, TRUE)

Fetched(step) ==
    /\ params' = step.params
    /\ all' = step.all
    /\ sent' = Append(sent, [tf |-> plan[idx + 1].tf, qs |-> step.qs])
    /\ idx' = idx + 1
    /\ pc' = IF step.panics THEN "panic" ELSE pc
    /\ UNCHANGED <<upstream, req, isRange, requestedTf, command, plan,
                   constructed, response, labelVars, stripVars, synthVars, connVars, paramVars, poolVars>>

\* fetchWindowsInstant: one window
FetchWindowInstant ==
    /\ pc = "fetch" /\ ~isRange /\ idx < Len(plan)
    /\ Fetched(FetchInstantIter(upstream, params, all, plan[idx + 1], command))

\* fetchWindowsRange: one window
FetchWindowRange ==
    /\ pc = "fetch" /\ isRange /\ idx < Len(plan)
    /\ Fetched(FetchRangeIter(upstream, params, all, plan[idx + 1], command))

\* the rest of the handler after the loop: merge, select, writeJSON
Finish(range) ==
    /\ pc = "fetch" /\ isRange = range /\ idx = Len(plan)
    /\ IF MergePanics(all, requestedTf, command, range)
       THEN /\ pc' = "panic"
            /\ UNCHANGED <<constructed, response>>
       ELSE \E d, a, c, p \in MapOrders :
              LET o == [dedupe |-> d, average |-> a, compare |-> c, percent |-> p]
                  merged == Merge(all, requestedTf, command, range, o)
              IN /\ constructed' = merged
                 /\ response' = Select(merged, requestedTf, command)
                 /\ pc' = "done"
    /\ UNCHANGED <<upstream, req, isRange, params, requestedTf, command, plan, idx,
                   all, sent, labelVars, stripVars, synthVars, connVars, paramVars, poolVars>>

WriteQuery == Finish(FALSE)

WriteQueryRange == Finish(TRUE)

\* the connection is done with; the server waits for the next request
Close ==
    /\ pc \in {"done", "panic"}
    /\ pc' = "idle"
    /\ req' = NoRequest
    /\ isRange' = FALSE
    /\ params' = <<>>
    /\ requestedTf' = ""
    /\ command' = ""
    /\ plan' = <<>>
    /\ idx' = 0
    /\ all' = <<>>
    /\ sent' = <<>>
    /\ constructed' = <<>>
    /\ response' = <<>>
    /\ aborted' = -1
    /\ UNCHANGED <<upstream, labelVars, stripVars, synthVars, paramVars, poolVars>>

Next ==
    \/ HandleQuery
    \/ HandleQueryRange
    \/ FetchWindowInstant
    \/ FetchWindowRange
    \/ WriteQuery
    \/ WriteQueryRange
    \/ Close

Spec == Init /\ [][Next]_vars

\* the client closes the connection while the handler is in its fetch loop;
\* the handlers never look at the request's context
ClientAborts ==
    /\ pc = "fetch"
    /\ aborted = -1
    /\ aborted' = Len(sent)
    /\ UNCHANGED <<queryVars, labelVars, stripVars, synthVars, paramVars, poolVars>>

AbortInit ==
    /\ ConnIdle
    /\ ParamIdle
    /\ PoolIdle
    /\ LabelIdle
    /\ StripIdle
    /\ SynthIdle
    /\ QueryIdle

AbortNext ==
    \/ HandleQuery
    \/ HandleQueryRange
    \/ FetchWindowInstant
    \/ FetchWindowRange
    \/ WriteQuery
    \/ WriteQueryRange
    \/ ClientAborts
    \/ Close

AbortSpec == AbortInit /\ [][AbortNext]_vars

----------------------------------------------------------------------------
(* The label endpoints: handleLabels and handleLabelValues *)

\* what the backend's label endpoints can do with a request
LabelUpstreams == {"ok", "full", "down", "garbage", "nodata"}

\* the label names the backend knows; the backend "full" lists the synthetic
\* names itself
UpstreamNames(kind) ==
    IF kind = "full" THEN <<"__name__", "chrono_timeframe", "job", "_command">>
    ELSE <<"__name__", "job">>

\* the values job takes on the series of the backend
UpstreamJobs(kind) == IF kind = "full" THEN <<"c">> ELSE <<"a", "b">>

\* the backend's selection: a selector that names job="a" selects that job
\* only, one that names a label no series carries selects nothing
Selects(sel, j) ==
    /\ \A i \in 1..Len(sel) :
          /\ ~StartsWith(sel, i, <<"chrono_timeframe", "=">>)
          /\ ~StartsWith(sel, i, <<"command", "=">>)
    /\ (\E i \in 1..Len(sel) : StartsWith(sel, i, <<"job", "=", Q, "a", Q>>)) => j = "a"

\* the values of job over the series the match[] selectors of qs select
UpstreamJobValues(kind, qs) ==
    LET Kept(j) == \/ "match[]" \notin DOMAIN qs
                   \/ \E i \in 1..Len(qs["match[]"]) : Selects(qs["match[]"][i], j)
    IN SelectSeq(UpstreamJobs(kind), Kept)

\* p.client.Get on a label endpoint: a transport error, or an HTTP status with
\* a body that is a JSON object (its fields) or not JSON at all
UpstreamLabelAnswer(kind, data) ==
    CASE kind = "down" -> [err |-> TRUE, code |-> 0, json |-> FALSE, fields |-> <<>>]
      [] kind = "garbage" -> [err |-> FALSE, code |-> 503, json |-> FALSE, fields |-> <<>>]
      [] kind = "nodata" -> [err |-> FALSE, code |-> 500, json |-> TRUE,
                             fields |-> [status |-> "error", error |-> "execution"]]
      [] OTHER -> [err |-> FALSE, code |-> 200, json |-> TRUE,
                   fields |-> [status |-> "success", data |-> data]]

\* containsString
ContainsString(arr, x) == \E i \in 1..Len(arr) : arr[i] = x

\* the head shared by the two label handlers: cleanup of "match", then remapMatch
LabelParams(values) ==
    RemapMatch(StripLabelFromParam(StripLabelFromParam(values, "match",
                                                       <<"chrono_timeframe">>),
                                   "match", <<"command">>))

BadGateway(msg) == [code |-> 502, body |-> [status |-> "error", error |-> msg]]

Success(data) == [code |-> 200, body |-> [status |-> "success", data |-> data]]

\* the selector texts a client puts in match / match[]
LabelMatcherLists == {ms \in MatcherLists : Len(ms) >= 1 /\ Len(ms) <= 2}

LabelFilters ==
    {<<>>}
    \cup {("match" :> <<QueryText(ms)>>) : ms \in LabelMatcherLists}
    \cup {("match[]" :> <<QueryText(ms)>>) : ms \in LabelMatcherLists}
    \cup {("match[]" :> <<QueryText(<<JobMatcher>>), QueryText(ms)>>) :
            ms \in {<<TfMatcher("7days")>>, <<JobMatcher, CmdMatcher(OVERRIDE)>>}}
    \cup {("match" :> <<QueryText(<<TfMatcher("7days")>>)>>)
          @@ ("match[]" :> <<QueryText(<<JobMatcher>>)>>)}

LabelNames == {"job", "chrono_timeframe", "_command"}

LabelsRequests == {[endpoint |-> "labels", label |-> "", values |-> f] : f \in LabelFilters}

LabelValuesRequests ==
    {[endpoint |-> "label_values", label |-> l, values |-> f] :
        l \in LabelNames, f \in LabelFilters}

LabelInit ==
    /\ ConnIdle
    /\ ParamIdle
    /\ PoolIdle
    /\ LabelIdle
    /\ StripIdle
    /\ SynthIdle
    /\ QueryIdle

\* handleLabels
HandleLabels ==
    \E r \in LabelsRequests, u \in LabelUpstreams :
        LET qs == BuildQueryString(LabelParams(ParseClientParams(r)))
            up == UpstreamLabelAnswer(u, UpstreamNames(u))
            ok == up.json /\ "data" \in DOMAIN up.fields
            data0 == IF ok THEN up.fields.data ELSE <<>>
            out0 == IF ok THEN up.fields ELSE ("status" :> "success") @@ up.fields
            data1 == IF ContainsString(data0, "chrono_timeframe") THEN data0
                     ELSE Append(data0, "chrono_timeframe")
            data2 == IF ContainsString(data1, "_command") THEN data1
                     ELSE Append(data1, "_command")
        IN /\ lpc = "idle"
           /\ labelUpstream' = u
           /\ lreq' = r
           /\ lsent' = <<qs>>
           /\ IF up.err
              THEN lresp' = BadGateway("Upstream request failed") /\ lpc' = "done"
              ELSE IF ~up.json
              \* Decode leaves the map nil; out["status"] = ... panics
              THEN lresp' = <<>> /\ lpc' = "panic"
              ELSE /\ lresp' = [code |-> 200, body |-> ("data" :> data2) @@ out0]
                   /\ lpc' = "done"
           /\ UNCHANGED <<labelValuesCache, queryVars, stripVars, synthVars, connVars, paramVars, poolVars>>

\* the list handleLabelValues answers for chrono_timeframe
TimeframeValuesWithCurrentTwice ==
    ProxyTimeframes \o <<"lastMonthAverage", "compareAgainstLast28",
                         "percentCompareAgainstLast28", "current">>

TimeframeValues ==
    ProxyTimeframes \o <<"lastMonthAverage", "compareAgainstLast28",
                         "percentCompareAgainstLast28">>

\* handleLabelValues
HandleLabelValues ==
    \E r \in LabelValuesRequests, u \in LabelUpstreams :
        LET qs == BuildQueryString(LabelParams(ParseClientParams(r)))
            up == UpstreamLabelAnswer(u, UpstreamJobValues(u, qs))
            hit == r.label \in DOMAIN labelValuesCache /\ labelValuesCache[r.label].fresh
        IN /\ lpc = "idle"
           /\ labelUpstream' = u
           /\ lreq' = r
           /\ lpc' = "done"
           /\ IF r.label = "chrono_timeframe"
              THEN /\ lresp' = Success(TimeframeValues)
                   /\ lsent' = <<>>
                   /\ UNCHANGED labelValuesCache
              ELSE IF r.label = "_command"
              THEN /\ lresp' = Success(<<"", OVERRIDE>>)
                   /\ lsent' = <<>>
                   /\ UNCHANGED labelValuesCache
              ELSE IF hit
              THEN /\ lresp' = Success(labelValuesCache[r.label].data)
                   /\ lsent' = <<>>
                   /\ UNCHANGED labelValuesCache
              ELSE /\ lsent' = <<qs>>
                   /\ IF up.err
                      THEN lresp' = BadGateway("Upstream request failed")
                      ELSE IF ~up.json
                      THEN lresp' = BadGateway("Invalid response from upstream")
                      ELSE lresp' = [code |-> 200, body |-> up.fields]
                   /\ IF ~up.err /\ up.json /\ "data" \in DOMAIN up.fields
                      THEN labelValuesCache' =
                             (r.label :> [data |-> up.fields.data, fresh |-> TRUE])
                             @@ labelValuesCache
                      ELSE UNCHANGED labelValuesCache
           /\ UNCHANGED <<queryVars, stripVars, synthVars, connVars, paramVars, poolVars>>

\* labelValuesCacheTTL goes by: the entries stay, none is fresh any more
CacheExpires ==
    /\ lpc = "idle"
    /\ \E l \in DOMAIN labelValuesCache : labelValuesCache[l].fresh
    /\ labelValuesCache' = [l \in DOMAIN labelValuesCache |->
                              [labelValuesCache[l] EXCEPT !.fresh = FALSE]]
    /\ UNCHANGED <<labelUpstream, lpc, lreq, lsent, lresp, queryVars, stripVars, synthVars, connVars, paramVars, poolVars>>

\* the connection is done with; the cache outlives the request
LabelClose ==
    /\ lpc \in {"done", "panic"}
    /\ lpc' = "idle"
    /\ lreq' = <<>>
    /\ lsent' = <<>>
    /\ lresp' = <<>>
    /\ UNCHANGED <<labelUpstream, labelValuesCache, queryVars, stripVars, synthVars, connVars, paramVars, poolVars>>

LabelNext ==
    \/ HandleLabels
    \/ HandleLabelValues
    \/ CacheExpires
    \/ LabelClose

LabelSpec == LabelInit /\ [][LabelNext]_vars

----------------------------------------------------------------------------
(* Matcher cleanup on its own: stripLabelFromParam over the texts a client *)
(* can write between braces                                                *)

\* how many matchers a cleaned text holds at most
MaxMatchers == 3

\* how many times in a row a text is cleaned
MaxCleanups == 2

\* matchers of a client: the two synthetic ones, a plain one, names that end
\* in a synthetic name, values that hold commas and braces
StripItems ==
    {MatcherText(JobMatcher),
     MatcherText(TfMatcher("7days")),
     MatcherText(CmdMatcher("x")),
     MatcherText([name |-> "my_chrono_timeframe", value |-> "x"]),
     <<"my_", "command", "=", Q, "x", Q>>,
     <<"job", "=", Q, "a", ",", ",", "b", Q>>,
     <<"job", "=", Q, "{", ",", "x", ",", "}", Q>>}

\* PromQL allows blanks after a comma and a comma after the last matcher
Separators == {<<",">>, <<",", " ">>}

Trailers == {<<>>, <<",">>}

RECURSIVE JoinItems(_, _)
JoinItems(items, sep) ==
    IF Len(items) = 0 THEN <<>>
    ELSE IF Len(items) = 1 THEN items[1]
    ELSE items[1] \o sep \o JoinItems(Tail(items), sep)

SelectorText(items, sep, trail) ==
    <<"up", "{">> \o JoinItems(items, sep) \o (IF Len(items) = 0 THEN <<>> ELSE trail) \o <<"}">>

ItemLists == UNION {[1..n -> StripItems] : n \in 0..MaxMatchers}

\* the labels the source asks stripLabelFromParam to strip, and _command itself
StripLabels == {<<"chrono_timeframe">>, <<"command">>, <<"_", "command">>}

StripInit ==
    /\ ConnIdle
    /\ ParamIdle
    /\ PoolIdle
    /\ LabelIdle
    /\ SynthIdle
    /\ QueryIdle
    /\ sitems \in ItemLists
    /\ \E sep \in Separators, trail \in Trailers : stext = SelectorText(sitems, sep, trail)
    /\ slabel \in StripLabels
    /\ sout = <<>>
    /\ squery = <<>>

\* stripLabelFromParam(vals, "query", slabel) on the value cleaned last
Strip ==
    /\ Len(sout) < MaxCleanups
    /\ LET last == IF Len(sout) = 0 THEN stext ELSE sout[Len(sout)]
           vals == StripLabelFromParam(("query" :> <<last>>), "query", slabel)
       IN sout' = Append(sout, vals["query"][1])
    /\ UNCHANGED <<sitems, stext, slabel, squery, queryVars, labelVars, synthVars, connVars, paramVars, poolVars>>

\* the two cleanups of handleQuery / handleQueryRange on the client's query
StripForQuery ==
    /\ squery = <<>>
    /\ LET vals == StripLabelFromParam(
                     StripLabelFromParam(("query" :> <<stext>>), "query",
                                         <<"chrono_timeframe">>),
                     "query", <<"command">>)
       IN squery' = vals["query"]
    /\ UNCHANGED <<sitems, stext, slabel, sout, queryVars, labelVars, synthVars, connVars, paramVars, poolVars>>

StripNext ==
    \/ Strip
    \/ StripForQuery

StripSpec == StripInit /\ [][StripNext]_vars

----------------------------------------------------------------------------
(* Synthesis on its own: the merge of handleQuery / handleQueryRange for a *)
(* request without selectors, over the pools a fetch can hand it           *)

SynthJob == [job |-> "a"]

\* the value of the k-th historical window: 10, 20, 30, 40
HistValue(k) == <<10 * k, 1>>

CurValue == <<50, 1>>

Zero == <<0, 1>>

\* a value text that is no numeral
NotANumber == <<>>

\* what a window holds for an instant query: nothing, or one sample dt seconds
\* after the client's time
InstantOptions(i) ==
    IF i = 1
    THEN {[has |-> FALSE, dt |-> 0, v |-> Zero],
          [has |-> TRUE, dt |-> 0, v |-> CurValue],
          [has |-> TRUE, dt |-> 0, v |-> Zero]}
    ELSE {[has |-> FALSE, dt |-> 0, v |-> Zero],
          [has |-> TRUE, dt |-> 0, v |-> HistValue(i - 1)],
          [has |-> TRUE, dt |-> 60, v |-> HistValue(i - 1)],
          [has |-> TRUE, dt |-> 0, v |-> Zero],
          [has |-> TRUE, dt |-> 0, v |-> NotANumber]}

\* the sample points of a range: start, start + 60, ...
StepPoints == 1..(RangeSteps + 1)

Steady(v) == [j \in StepPoints |-> v]

\* what a window holds for a range query: nothing, or one sample per step,
\* less the steps in skip
RangeOptions(i) ==
    IF i = 1
    THEN {[has |-> FALSE, vals |-> Steady(Zero), skip |-> {}],
          [has |-> TRUE, vals |-> Steady(CurValue), skip |-> {}],
          [has |-> TRUE, vals |-> Steady(Zero), skip |-> {}]}
    ELSE {[has |-> FALSE, vals |-> Steady(Zero), skip |-> {}],
          [has |-> TRUE, vals |-> Steady(HistValue(i - 1)), skip |-> {}],
          [has |-> TRUE, vals |-> Steady(HistValue(i - 1)), skip |-> {2}],
          [has |-> TRUE, vals |-> Steady(Zero), skip |-> {}],
          [has |-> TRUE, vals |-> [Steady(HistValue(i - 1)) EXCEPT ![2] = NotANumber],
           skip |-> {}]}

WindowIndexes == 1..Len(Timeframes)

InstantChoices ==
    {ch \in [WindowIndexes -> UNION {InstantOptions(i) : i \in WindowIndexes}] :
        \A i \in WindowIndexes : ch[i] \in InstantOptions(i)}

RangeChoices ==
    {ch \in [WindowIndexes -> UNION {RangeOptions(i) : i \in WindowIndexes}] :
        \A i \in WindowIndexes : ch[i] \in RangeOptions(i)}

\* the pool fetchWindowsInstant builds from these answers, timestamps shifted back
RECURSIVE InstantPool(_, _, _)
InstantPool(ch, t0, i) ==
    IF i > Len(Timeframes) THEN <<>>
    ELSE (IF ch[i].has
          THEN <<[metric |-> Tagged(SynthJob, Timeframes[i], ""),
                  value |-> <<t0 + ch[i].dt, ch[i].v>>]>>
          ELSE <<>>)
         \o InstantPool(ch, t0, i + 1)

RangeValues(opt, t0) ==
    LET js == SortedAsc(StepPoints \ opt.skip)
    IN [k \in 1..Len(js) |-> <<t0 + 60 * (js[k] - 1), opt.vals[js[k]]>>]

\* the pool fetchWindowsRange builds from these answers
RECURSIVE RangePool(_, _, _)
RangePool(ch, t0, i) ==
    IF i > Len(Timeframes) THEN <<>>
    ELSE (IF ch[i].has
          THEN <<[metric |-> Tagged(SynthJob, Timeframes[i], ""),
                  values |-> RangeValues(ch[i], t0)]>>
          ELSE <<>>)
         \o RangePool(ch, t0, i + 1)

\* the client's time or start: as sent, and on a minute boundary
SynthStarts == {ClientTime, Minute(ClientTime)}

SynthInit ==
    /\ ConnIdle
    /\ ParamIdle
    /\ PoolIdle
    /\ LabelIdle
    /\ StripIdle
    /\ QueryIdle
    /\ spc = "ready"
    /\ srange \in BOOLEAN
    /\ sstart \in SynthStarts
    /\ IF srange
       THEN \E ch \in RangeChoices : spool = RangePool(ch, sstart, 1)
       ELSE \E ch \in InstantChoices : spool = InstantPool(ch, sstart, 1)
    /\ ssynth = <<>>

\* dedupeSeries, buildLastMonthAverage, indexBySignature, appendCompare,
\* appendPercent, as the handlers chain them when no selector is given
Synthesize(range) ==
    /\ spc = "ready" /\ srange = range
    /\ IF MergePanics(spool, "", "", range)
       THEN spc' = "panic" /\ UNCHANGED ssynth
       ELSE \E d, a, c, p \in MapOrders :
              /\ ssynth' = Merge(spool, "", "", range,
                                 [dedupe |-> d, average |-> a, compare |-> c, percent |-> p])
              /\ spc' = "done"
    /\ UNCHANGED <<srange, sstart, spool, queryVars, labelVars, stripVars, connVars, paramVars, poolVars>>

SynthesizeInstant == Synthesize(FALSE)

SynthesizeRange == Synthesize(TRUE)

SynthNext ==
    \/ SynthesizeInstant
    \/ SynthesizeRange

SynthSpec == SynthInit /\ [][SynthNext]_vars

----------------------------------------------------------------------------
(* dedupeSeries on its own, over pools that hold a series more than once *)

MaxPool == 3

\* instant series of two signatures and two windows, with one of two values
PoolSeries ==
    {[metric |-> Tagged(sig, tf, ""), value |-> <<ClientTime, v>>] :
        sig \in Signatures, tf \in {"current", "7days"}, v \in {CurValue, Zero}}

Pools == UNION {[1..n -> PoolSeries] : n \in 0..MaxPool}

DedupeInit ==
    /\ ConnIdle
    /\ ParamIdle
    /\ PoolIdle
    /\ LabelIdle
    /\ StripIdle
    /\ QueryIdle
    /\ spc = "ready"
    /\ srange = FALSE
    /\ sstart = ClientTime
    /\ spool \in Pools
    /\ ssynth = <<>>

\* dedupeSeries(all), for each order the range over bySig can take
Dedupe ==
    /\ spc = "ready"
    /\ \E d \in MapOrders : ssynth' = DedupeSeries(spool, d)
    /\ spc' = "done"
    /\ UNCHANGED <<srange, sstart, spool, queryVars, labelVars, stripVars, connVars, paramVars, poolVars>>

DedupeNext == Dedupe

DedupeSpec == DedupeInit /\ [][DedupeNext]_vars

----------------------------------------------------------------------------
(* buildQueryString on its own *)

Reversed(seq) == [i \in 1..Len(seq) |-> seq[Len(seq) + 1 - i]]

\* the value lists a client gives a parameter: one value, or two in either order
ValueLists == {<<<<"a">>>>, <<<<"a">>, <<"b">>>>, <<<<"b">>, <<"a">>>>}

\* absent, or present with one of the lists
Optional(k, lists) == {<<>>} \cup {(k :> l) : l \in lists}

\* multimaps of parameters the engine does not consume (foo, foo[]) and of
\* the ones it does
QsInputs ==
    {q @@ m @@ ma @@ f @@ fa :
        q \in Optional("query", {<<<<"up">>>>}),
        m \in Optional("match", ValueLists),
        ma \in Optional("match[]", ValueLists),
        f \in Optional("foo", ValueLists),
        fa \in Optional("foo[]", {<<<<"a">>>>})}

QsInit ==
    /\ ConnIdle
    /\ PoolIdle
    /\ LabelIdle
    /\ StripIdle
    /\ SynthIdle
    /\ QueryIdle
    /\ ppc = "ready"
    /\ pin \in QsInputs
    /\ pout = <<>>

\* buildQueryString(vals), then url.ParseQuery of its output
BuildQs ==
    /\ ppc = "ready"
    /\ \E order \in {KeyOrder, Reversed(KeyOrder)} : pout' = BuildQueryStringIn(pin, order)
    /\ ppc' = "done"
    /\ UNCHANGED <<pin, queryVars, labelVars, stripVars, synthVars, connVars, poolVars>>

QsNext == BuildQs

QsSpec == QsInit /\ [][QsNext]_vars

----------------------------------------------------------------------------
(* extractSelectors on its own, over match[] lists that repeat a selector *)

MaxEntries == 3

\* the matchers a client sends as whole match[] entries
EntryChoices ==
    {JobMatcher, TfMatcher("7days"), TfMatcher("14days"),
     CmdMatcher(OVERRIDE), CmdMatcher("dryRun")}

EntryLists == UNION {[1..n -> EntryChoices] : n \in 0..MaxEntries}

\* the query sent along: without selectors, or with one selector inline
InlineQueries ==
    {QueryText(<<>>), QueryText(<<TfMatcher("28days")>>), QueryText(<<CmdMatcher("dryRun")>>)}

ExtractInit ==
    /\ ConnIdle
    /\ PoolIdle
    /\ LabelIdle
    /\ StripIdle
    /\ SynthIdle
    /\ QueryIdle
    /\ ppc = "ready"
    /\ \E ml \in EntryLists, q \in InlineQueries :
          pin = ("query" :> <<q>>) @@ ("match[]" :> Texts(ml))
    /\ pout = <<>>

\* extractSelectors(vals)
Extract ==
    /\ ppc = "ready"
    /\ pout' = ExtractSelectors(pin)
    /\ ppc' = "done"
    /\ UNCHANGED <<pin, queryVars, labelVars, stripVars, synthVars, connVars, poolVars>>

ExtractNext == Extract

ExtractSpec == ExtractInit /\ [][ExtractNext]_vars

----------------------------------------------------------------------------
(* fetchWindowsRange on a buffer of seriesBufferPool, several requests at a time *)

PoolInit ==
    /\ ConnIdle
    /\ ParamIdle
    /\ LabelIdle
    /\ StripIdle
    /\ SynthIdle
    /\ QueryIdle
    /\ PoolIdle

PoolUnchanged == UNCHANGED <<queryVars, labelVars, stripVars, synthVars, connVars, paramVars>>

\* seriesBufferPool.Get(): a buffer the pool holds, or a new one; all = all[:0]
PoolGet(r) ==
    /\ rq[r].pc = "idle"
    /\ \/ \E b \in pooled :
             /\ pooled' = pooled \ {b}
             /\ rq' = [rq EXCEPT ![r] = [pc |-> "fetch", buf |-> b, len |-> 0]]
             /\ UNCHANGED made
       \/ /\ made < MaxBuffers
          /\ made' = made + 1
          /\ rq' = [rq EXCEPT ![r] = [pc |-> "fetch", buf |-> made + 1, len |-> 0]]
          /\ UNCHANGED pooled
    /\ UNCHANGED bufs
    /\ PoolUnchanged

\* all = append(all, series) for one window, within the capacity of the buffer
PoolAppend(r) ==
    /\ rq[r].pc = "fetch"
    /\ rq[r].len < PoolWindows
    /\ bufs' = [bufs EXCEPT ![rq[r].buf][rq[r].len + 1] = SeriesOf(r, rq[r].len + 1)]
    /\ rq' = [rq EXCEPT ![r].len = rq[r].len + 1]
    /\ UNCHANGED <<pooled, made>>
    /\ PoolUnchanged

\* return all: the result is the slice on the buffer; the deferred function
\* then sets every place of all to nil and puts the buffer back
PoolReturn(r) ==
    /\ rq[r].pc = "fetch"
    /\ rq[r].len = PoolWindows
    /\ bufs' = [bufs EXCEPT ![rq[r].buf] =
                  [k \in 1..PoolWindows |-> IF k <= rq[r].len THEN NilEntry ELSE @[k]]]
    /\ pooled' = pooled \cup {rq[r].buf}
    /\ rq' = [rq EXCEPT ![r].pc = "returned"]
    /\ UNCHANGED made
    /\ PoolUnchanged

\* handleQueryRange reads the slice: dedupeSeries asserts s["metric"] of
\* every entry, which panics on a nil entry
PoolRead(r) ==
    /\ rq[r].pc = "returned"
    /\ rq' = [rq EXCEPT ![r].pc =
                 IF \E k \in 1..rq[r].len : bufs[rq[r].buf][k] = NilEntry
                 THEN "panic" ELSE "read"]
    /\ UNCHANGED <<bufs, pooled, made>>
    /\ PoolUnchanged

\* the request is over
PoolDone(r) ==
    /\ rq[r].pc \in {"read", "panic"}
    /\ rq' = [rq EXCEPT ![r] = [pc |-> "idle", buf |-> 0, len |-> 0]]
    /\ UNCHANGED <<bufs, pooled, made>>
    /\ PoolUnchanged

PoolNext ==
    \E r \in 1..MaxConcurrent :
        \/ PoolGet(r)
        \/ PoolAppend(r)
        \/ PoolReturn(r)
        \/ PoolRead(r)
        \/ PoolDone(r)

PoolSpec == PoolInit /\ [][PoolNext]_vars

----------------------------------------------------------------------------
(* A whole request in one piece, for comparing two requests *)

\* fetchWindowsInstant / fetchWindowsRange: the loop over the windows in pl
RECURSIVE FetchWindows(_, _, _, _, _, _)
FetchWindows(up, vals, pool, pl, cmd, range) ==
    IF Len(pl) = 0 THEN pool
    ELSE LET step == IF range THEN FetchRangeIter(up, vals, pool, pl[1], cmd)
                     ELSE FetchInstantIter(up, vals, pool, pl[1], cmd)
         IN FetchWindows(up, step.params, step.all, Tail(pl), cmd, range)

\* the loop panics at one of the windows in pl
RECURSIVE FetchPanics(_, _, _, _, _)
FetchPanics(up, vals, pl, cmd, range) ==
    IF Len(pl) = 0 THEN FALSE
    ELSE LET step == IF range THEN FetchRangeIter(up, vals, <<>>, pl[1], cmd)
                     ELSE FetchInstantIter(up, vals, <<>>, pl[1], cmd)
         IN step.panics \/ FetchPanics(up, step.params, Tail(pl), cmd, range)

\* the result list the handler writes for a request with parameters values
Serve(up, values, range, o) ==
    LET h == HandlerHead([values |-> values], range)
        pool == FetchWindows(up, h.params, <<>>, h.plan, h.cmd, range)
    IN IF FetchPanics(up, h.params, h.plan, h.cmd, range) \/ MergePanics(pool, h.tf, h.cmd, range)
       \* nothing is written
       THEN <<>>
       ELSE Select(Merge(pool, h.tf, h.cmd, range, o), h.tf, h.cmd)

AnOrder == CHOOSE o \in MapOrders : TRUE

FixedOrders == [dedupe |-> AnOrder, average |-> AnOrder, compare |-> AnOrder, percent |-> AnOrder]

----------------------------------------------------------------------------
(* Vocabulary of the properties *)

Elems(list) == {list[i] : i \in 1..Len(list)}

Count(list, x) == Cardinality({i \in 1..Len(list) : list[i] = x})

\* the same series the same number of times, in any order
SameSeries(l1, l2) ==
    /\ Len(l1) = Len(l2)
    /\ \A x \in Elems(l1) \cup Elems(l2) : Count(l1, x) = Count(l2, x)

TfOf(s) == s.metric["chrono_timeframe"]

\* the anchors the client asked for
ClientInstant == ParseTime(Get(req.values, "time"))

ClientStart == ParseTime(Get(req.values, "start"))

ClientEnd == ParseTime(Get(req.values, "end"))

Answered == pc = "done"

\* sample timestamps of a series of the response
Stamps(s) == {Points(s, isRange)[j][1] : j \in 1..Len(Points(s, isRange))}

\* the pool holds one series of every window, all of one signature
OneSignatureEveryWindow ==
    /\ Len(all) = Len(Timeframes)
    /\ \A i \in 1..Len(all) : TfOf(all[i]) = Timeframes[i]
    /\ \A i, j \in 1..Len(all) : Signature(all[i].metric) = Signature(all[j].metric)

\* for every signature the three derived series that the pool allows are in list
SyntheticsIn(list) ==
    \A sig \in Signatures :
        LET hist == \E s \in Elems(all) : HasSig(s, sig) /\ Historical(s)
            cur == \E s \in Elems(all) : HasSig(s, sig) /\ IsCurrent(s)
            In(tf) == \E s \in Elems(list) : HasSig(s, sig) /\ TfOf(s) = tf
        IN /\ hist => In("lastMonthAverage")
           /\ (hist /\ cur) => In("compareAgainstLast28") /\ In("percentCompareAgainstLast28")

NoSyntheticsIn(list) == \A s \in Elems(list) : TfOf(s) \notin SyntheticTfs

\* the query the client wrote, less its two synthetic matchers
CleanQuery(ms) ==
    LET Other(m) == m.name \notin SyntheticLabels
    IN IF Len(ms) = 0 THEN <<"up">>
       ELSE <<"up", "{">> \o JoinMatchers(SelectSeq(ms, Other)) \o <<"}">>

----------------------------------------------------------------------------
(* C1 - C10 *)

\* C1 (as claimed): every upstream request of a window is anchored at the
\* client's anchor minus that window's own offset: time for an instant query,
\* start and end for a range query, whatever was fetched before it.
C1_AnchorIsClientMinusOwnOffset ==
    \A i \in 1..Len(sent) :
        LET o == OffsetOf(sent[i].tf)
        IN IF isRange
           THEN /\ ParseTime(Get(sent[i].qs, "start")) = ClientStart - o
                /\ ParseTime(Get(sent[i].qs, "end")) = ClientEnd - o
           ELSE ParseTime(Get(sent[i].qs, "time")) = ClientInstant - o

\* C2 (as claimed): in a response every sample of a raw-window series lies in
\* the range the client asked for: at the client's time for an instant query,
\* inside [start, end] for a range query (the backend of the model answers at
\* the requested times).
C2_RawSamplesInClientRange ==
    Answered =>
        \A s \in Elems(response) :
            TfOf(s) \in RawTfs =>
                \A t \in Stamps(s) :
                    IF isRange THEN ClientStart <= t /\ t <= ClientEnd
                    ELSE t = ClientInstant

\* C3 (as claimed, for the selectors it lists: none or a named window): one
\* upstream request when the selector is a raw window and the command is not
\* the override, five in every other case.
C3_OneOrFiveUpstreamRequests ==
    (Answered /\ requestedTf \in NamedTfs \cup {""}) =>
        Len(sent) = IF requestedTf \in RawTfs /\ command # OVERRIDE THEN 1 ELSE Len(Timeframes)

\* C4: with a window selector and no override, every series of the response
\* carries the selector as chrono_timeframe, and every series the request
\* built with that chrono_timeframe is in the response.
C4_ResponseIsExactlyTheSelectedWindow ==
    (Answered /\ requestedTf # "" /\ command # OVERRIDE) =>
        /\ \A s \in Elems(response) : TfOf(s) = requestedTf
        /\ \A s \in Elems(all) \cup Elems(constructed) :
              TfOf(s) = requestedTf => Count(response, s) >= 1

C4_Witness ==
    /\ Answered /\ command = "dryRun"
    /\ requestedTf = "compareAgainstLast28"
    /\ Len(response) = Cardinality(Signatures)
    /\ Len(all) > Len(response)

\* C5 (as claimed): a raw window selector with the override fetches all five
\* windows, and the response holds every raw series and the three derived
\* series, unfiltered, each carrying _command = the override.
C5_OverrideEmitsEverything ==
    (Answered /\ requestedTf \in RawTfs /\ command = OVERRIDE) =>
        /\ Len(sent) = Len(Timeframes)
        /\ \A s \in Elems(all) : Count(response, s) >= 1
        /\ SyntheticsIn(response)
        /\ \A s \in Elems(response) :
              "_command" \in DOMAIN s.metric /\ s.metric["_command"] = OVERRIDE

\* C6 (as claimed): with no window selector, whatever the command, all five
\* windows are fetched and the response holds the raw series and the three
\* derived series: 8 series when every window returns the one signature.
C6_NoSelectorEmitsRawAndSynthetics ==
    (Answered /\ requestedTf = "") =>
        /\ Len(sent) = Len(Timeframes)
        /\ \A s \in Elems(all) : Count(response, s) >= 1
        /\ SyntheticsIn(response)
        /\ OneSignatureEveryWindow => Len(response) = 8

\* C6 (amended): with no window selector all five windows are fetched and the
\* raw series are in the response; unless the command is the override the three
\* derived series are there too (8 series when every window returns the one
\* signature); with the override the response holds the raw series alone.
C6_NoSelectorEmitsSyntheticsUnlessOverride ==
    (Answered /\ requestedTf = "") =>
        /\ Len(sent) = Len(Timeframes)
        /\ \A s \in Elems(all) : Count(response, s) >= 1
        /\ command # OVERRIDE =>
              /\ SyntheticsIn(response)
              /\ OneSignatureEveryWindow => Len(response) = 8
        /\ command = OVERRIDE =>
              /\ NoSyntheticsIn(response)
              /\ Len(response) = Len(all)

C6_Witness ==
    /\ Answered /\ requestedTf = "" /\ command = "dryRun"
    /\ OneSignatureEveryWindow
    /\ Len(response) = 8

C8_SelectedEqualsSubsetOfUnselected ==
    (Answered /\ requestedTf \in NamedTfs /\ command # OVERRIDE) =>
        SameSeries(response,
                   FilterByTimeframe(Serve(upstream, req.plain, isRange, FixedOrders),
                                     requestedTf))

\* C9 (as claimed): a selector value that names no window is served like no
\* selector: five windows fetched, the unfiltered response.
C9_UnknownSelectorServedAsNone ==
    (Answered /\ requestedTf \notin NamedTfs \cup {""}) =>
        /\ Len(sent) = Len(Timeframes)
        /\ SameSeries(response, Serve(upstream, req.plain, isRange, FixedOrders))

\* C9 (amended): a selector value that names no window is not served like no
\* selector: no window is fetched, the handler does not fail, and the response
\* is the success envelope with an empty result.
C9_UnknownSelectorFetchesNothing ==
    (pc # "idle" /\ requestedTf \notin NamedTfs \cup {""}) =>
        /\ plan = <<>>
        /\ sent = <<>>
        /\ pc # "panic"
        /\ Answered => response = <<>>

C9_Witness ==
    /\ Answered /\ requestedTf = "bogus"
    /\ Len(Serve(upstream, req.plain, isRange, FixedOrders)) = 8

\* C10 (as claimed): the query sent upstream is the client's expression with
\* exactly its chrono_timeframe and _command matchers removed: the other
\* matchers in order, single commas between them, no fragment left behind.
C10_UpstreamQueryIsCleaned ==
    \A i \in 1..Len(sent) : Get(sent[i].qs, "query") = CleanQuery(req.matchers)

----------------------------------------------------------------------------
(* C11 - C20 *)

\* the text s holds label= somewhere
Mentions(s, label) == \E i \in 1..Len(s) : StartsWith(s, i, label \o <<"=">>)

\* no value of query or match[] of the upstream request qs names a synthetic label
FreeOfSynthetics(qs) ==
    \A k \in DOMAIN qs \cap {"query", "match[]"} :
        \A i \in 1..Len(qs[k]) :
            /\ ~Mentions(qs[k][i], <<"chrono_timeframe">>)
            /\ ~Mentions(qs[k][i], <<"_", "command">>)

\* C11 (as claimed): no request the engine sends upstream, from the query
\* handlers or from the label handlers, holds chrono_timeframe= or _command=
\* in a value of query or match[].
C11_NoSyntheticMatcherUpstream ==
    /\ \A i \in 1..Len(sent) : FreeOfSynthetics(sent[i].qs)
    /\ \A i \in 1..Len(lsent) : FreeOfSynthetics(lsent[i])

\* the text m is found in s, token for token
Occurs(m, s) == \E i \in 1..Len(s) : StartsWith(s, i, m)

SyntheticItems == {MatcherText(TfMatcher("7days")), MatcherText(CmdMatcher("x"))}

\* C12 (as claimed): cleaning a text of a synthetic label a second time
\* changes nothing: the second result equals the first.
C12_CleanupIsIdempotent ==
    \A i \in 2..Len(sout) : sout[i] = sout[1]

\* C13 (as claimed): every matcher of the client's query other than
\* chrono_timeframe and _command is found unchanged in the query the
\* handlers send upstream, also when its name ends in a synthetic name or
\* its value holds commas or braces.
C13_OtherMatchersUntouched ==
    \A q \in 1..Len(squery) :
        \A i \in 1..Len(sitems) :
            sitems[i] \notin SyntheticItems => Occurs(sitems[i], squery[q])

\* the series of list that carry the window name tf
OfWindow(list, tf) == Elems(FilterByTimeframe(list, tf))

SamePlace(s1, s2) == Signature(s1.metric) = Signature(s2.metric)

IsNumeral(v) == Len(v) = 2

\* the samples of the pool: <<i, j>> is the j-th point of the i-th series
PoolSamples == {<<i, j>> \in (1..Len(spool)) \X (1..(RangeSteps + 1)) :
                  j <= Len(Points(spool[i], srange))}

SampleTime(x) == Points(spool[x[1]], srange)[x[2]][1]

SampleValue(x) == Points(spool[x[1]], srange)[x[2]][2]

\* the historical samples of the signature of s whose value is a numeral
HistoricalNumerals(s) ==
    {x \in PoolSamples : /\ SamePlace(spool[x[1]], s)
                         /\ TfOf(spool[x[1]]) # "current"
                         /\ IsNumeral(SampleValue(x))}

RECURSIVE SumOf(_)
SumOf(S) ==
    IF S = {} THEN Zero
    ELSE LET x == CHOOSE y \in S : TRUE IN RAdd(SampleValue(x), SumOf(S \ {x}))

\* every emitted point of every average series is the sum of the historical
\* numerals of its minute over four
AverageIsSumOverFour ==
    \A s \in OfWindow(ssynth, "lastMonthAverage") :
        \A k \in 1..Len(Points(s, srange)) :
            LET pt == Points(s, srange)[k]
                bucket == {x \in HistoricalNumerals(s) : Minute(SampleTime(x)) = pt[1]}
            IN /\ bucket # {}
               /\ pt[2] = FormatG(RDiv(SumOf(bucket), <<4, 1>>))

HistoricalAt(c, t) == {x \in HistoricalNumerals(c) : SampleTime(x) = t}

EveryHistoricalAt(c, t) ==
    \A i \in 2..Len(Timeframes) :
        \E x \in HistoricalAt(c, t) : TfOf(spool[x[1]]) = Timeframes[i]

\* the series of window tf and the signature of c holds value v at time t
HoldsAt(tf, c, t, v) ==
    \E d \in OfWindow(ssynth, tf) :
        /\ SamePlace(d, c)
        /\ \E k \in 1..Len(d.values) : d.values[k] = <<t, v>>

\* C15 (as claimed): in a range result, at every time t at which the current
\* series and all four historical windows hold a sample, compareAgainstLast28
\* is current(t) minus the mean of the four and percentCompareAgainstLast28
\* is that difference over the mean times 100, whether the start is on a
\* minute boundary or not.
C15_DeltaAgainstMeanOfFour ==
    (spc = "done" /\ srange) =>
        \A c \in OfWindow(spool, "current") :
            \A k \in 1..Len(c.values) :
                LET t == c.values[k][1]
                    vc == c.values[k][2]
                    mean == RDiv(SumOf(HistoricalAt(c, t)), <<4, 1>>)
                    diff == RSub(vc, mean)
                IN EveryHistoricalAt(c, t) =>
                      /\ HoldsAt("compareAgainstLast28", c, t, FormatG(diff))
                      /\ mean # Zero =>
                            HoldsAt("percentCompareAgainstLast28", c, t,
                                    FormatG(RMul(RDiv(diff, mean), <<100, 1>>)))

\* the value the average series of the signature of c shows at time t: zero
\* when it has no point there
AverageShown(c, t) ==
    LET pts == UNION {{Points(a, srange)[k] : k \in 1..Len(Points(a, srange))} :
                        a \in {x \in OfWindow(ssynth, "lastMonthAverage") : SamePlace(x, c)}}
        at == {pt \in pts : srange => pt[1] = t}
    IN IF at = {} THEN Zero ELSE (CHOOSE pt \in at : TRUE)[2]

\* C16: a percentCompareAgainstLast28 series has one point for every point of
\* its current series, and where the average it is compared with is 0 (or, in
\* a range, has no point at that time) the point's value is 0.
C16_PercentOfZeroAverageIsZero ==
    spc = "done" =>
        \A p \in OfWindow(ssynth, "percentCompareAgainstLast28") :
            \E c \in OfWindow(spool, "current") :
                /\ SamePlace(c, p)
                /\ Len(Points(p, srange)) = Len(Points(c, srange))
                /\ \A k \in 1..Len(Points(c, srange)) :
                      LET t == Points(c, srange)[k][1]
                      IN /\ Points(p, srange)[k][1] = t
                         /\ AverageShown(c, t) = Zero => Points(p, srange)[k][2] = Zero

C16_Witness ==
    /\ spc = "done"
    /\ \E p \in OfWindow(ssynth, "percentCompareAgainstLast28") :
          \E c \in OfWindow(spool, "current") :
              \E k \in 1..Len(Points(c, srange)) :
                  /\ SamePlace(c, p)
                  /\ Points(c, srange)[k][2] = CurValue
                  /\ AverageShown(c, Points(c, srange)[k][1]) = Zero
                  /\ Points(p, srange)[k][2] = Zero

\* C17 (as claimed): in a range result every sample of a lastMonthAverage
\* series lies on a minute boundary inside the client's [start, end],
\* whether start is on a minute boundary or not.
C17_AverageSamplesOnMinutesInRange ==
    (spc = "done" /\ srange) =>
        \A s \in OfWindow(ssynth, "lastMonthAverage") :
            \A k \in 1..Len(s.values) :
                /\ s.values[k][1] % 60 = 0
                /\ sstart <= s.values[k][1]
                /\ s.values[k][1] <= sstart + RangeSteps * 60

\* the pool holds a historical sample whose value is no numeral
SomeHistoricalUnparsable ==
    \E x \in PoolSamples : TfOf(spool[x[1]]) # "current" /\ ~IsNumeral(SampleValue(x))

\* C20 (as claimed): when a historical sample does not parse, the synthesis
\* still completes, and every average it emits is the sum of the samples of
\* the minute that do parse over four; also when no historical sample of the
\* signature parses.
C20_UnparsableSampleIsDropped ==
    SomeHistoricalUnparsable =>
        /\ spc # "panic"
        /\ spc = "done" => AverageIsSumOverFour

\* the anchor of the i-th upstream request of the current request
AnchorSent(i) ==
    IF isRange THEN ParseTime(Get(sent[i].qs, "start")) ELSE ParseTime(Get(sent[i].qs, "time"))

\* the backend did not answer the i-th upstream request, or answered it with
\* result entries that lack their value / values
FetchFailed(i) == WeekIdx(AnchorSent(i)) \in upstream.fail \cup upstream.bare

\* C18 (as claimed): in every response, every signature that has a
\* compareAgainstLast28 series also has a current series in that response.
C18_CompareImpliesCurrentInResponse ==
    Answered =>
        \A s \in OfWindow(response, "compareAgainstLast28") :
            \E c \in OfWindow(response, "current") : SamePlace(c, s)

\* C18 (amended): every compareAgainstLast28 series of a response was built
\* from a current series of the same signature in the fetched pool; that
\* current series is in the response too when the request names no window,
\* while a request that selects compareAgainstLast28 gets the compare series
\* without any current series.
C18_CompareImpliesCurrentFetched ==
    Answered =>
        /\ \A s \in OfWindow(response, "compareAgainstLast28") :
              /\ \E c \in OfWindow(all, "current") : SamePlace(c, s)
              /\ requestedTf = "" => \E c \in OfWindow(response, "current") : SamePlace(c, s)
        /\ (requestedTf = "compareAgainstLast28" /\ command # OVERRIDE) =>
              OfWindow(response, "current") = {}

C18_Witness ==
    /\ Answered /\ requestedTf = "compareAgainstLast28"
    /\ OfWindow(response, "compareAgainstLast28") # {}
    /\ OfWindow(all, "current") # {}

\* C19 (as claimed): when the fetch of a window fails, the handler does not
\* fail: that window adds no series to the pool, every window is still fetched
\* at the client's anchor minus its own offset, and the client gets a response.
C19_WindowFailureIsNotFatal ==
    (\E i \in 1..Len(sent) : FetchFailed(i)) =>
        /\ pc # "panic"
        /\ \A i \in 1..Len(sent) :
              AnchorSent(i) = (IF isRange THEN ClientStart ELSE ClientInstant)
                              - OffsetOf(sent[i].tf)
        /\ Answered =>
              \A i \in 1..Len(sent) : FetchFailed(i) => OfWindow(all, sent[i].tf) = {}

----------------------------------------------------------------------------
(* C21 - C30 *)

\* the label handler has answered a label-values request for the name l
ServedLabelValues(l) ==
    lpc = "done" /\ lreq.endpoint = "label_values" /\ lreq.label = l

\* the label handler is done with a label-names request
ServedLabels == lpc \in {"done", "panic"} /\ lreq.endpoint = "labels"

AllWindowNames ==
    <<"current", "7days", "14days", "21days", "28days",
      "lastMonthAverage", "compareAgainstLast28", "percentCompareAgainstLast28">>

\* C21 (as claimed): a label-values request for chrono_timeframe is answered
\* with success and a list of nine entries that are the window names, and no
\* upstream request is made for it.
C21_NineWindowNamesNoUpstream ==
    ServedLabelValues("chrono_timeframe") =>
        /\ lresp.code = 200 /\ lresp.body.status = "success"
        /\ Len(lresp.body.data) = 9
        /\ Elems(lresp.body.data) = Elems(AllWindowNames)
        /\ lsent = <<>>

\* C21 (amended): a label-values request for chrono_timeframe is answered with
\* success and the eight window names (the five raw ones, current first, then
\* the three synthetic ones), in that order on every request, and no upstream
\* request is made for it, whatever the backend named by the path.
C21_EightWindowNamesNoUpstream ==
    ServedLabelValues("chrono_timeframe") =>
        /\ lresp.code = 200 /\ lresp.body.status = "success"
        /\ lresp.body.data = AllWindowNames
        /\ lsent = <<>>

C21_Witness ==
    /\ ServedLabelValues("chrono_timeframe")
    /\ labelUpstream = "down"
    /\ Len(lresp.body.data) = 8

\* what the backend named by the label request in hand answered; the data
\* of the answer plays no part in the fields read here
LabelAnswer == UpstreamLabelAnswer(labelUpstream, <<>>)

\* the list of label names in the backend's reply, empty when the reply
\* holds no list
OwnLabels == IF LabelAnswer.code = 200 THEN UpstreamNames(labelUpstream) ELSE <<>>

\* C22 (as claimed): whatever the label-names endpoint of the backend replies
\* (a list with the synthetic names, a list without them, a body without a
\* list), the client gets a list that starts with the backend's labels in
\* their order and holds chrono_timeframe and _command exactly once each.
C22_LabelListHoldsSyntheticNamesOnce ==
    (ServedLabels /\ ~LabelAnswer.err) =>
        /\ lpc = "done"
        /\ "data" \in DOMAIN lresp.body
        /\ Count(lresp.body.data, "chrono_timeframe") = 1
        /\ Count(lresp.body.data, "_command") = 1
        /\ Len(lresp.body.data) >= Len(OwnLabels)
        /\ SubSeq(lresp.body.data, 1, Len(OwnLabels)) = OwnLabels

\* C23 (as claimed): when the upstream call of a label-names or label-values
\* request fails, by a transport error or a non-2xx status, the client gets
\* status 502 with a JSON error body, never a success envelope.
C23_UpstreamFailureIsBadGateway ==
    (/\ lpc \in {"done", "panic"}
     /\ lsent # <<>>
     /\ (LabelAnswer.err \/ LabelAnswer.code \notin 200..299)) =>
        /\ lpc = "done"
        /\ lresp.code = 502
        /\ lresp.body.status = "error"

\* the reply of the request's own backend to the request's own cleaned filters
OwnReply ==
    LET qs == BuildQueryString(LabelParams(ParseClientParams(lreq)))
    IN UpstreamLabelAnswer(labelUpstream, UpstreamJobValues(labelUpstream, qs))

\* C24 (as claimed): the answer to a label-values request for a label of
\* the backend is the reply of that request's backend to that request's
\* filters, whatever requests were served before.
C24_NoResultKeptAcrossRequests ==
    ServedLabelValues("job") =>
        IF OwnReply.err \/ ~OwnReply.json
        THEN lresp.code = 502
        ELSE lresp.body = OwnReply.fields

\* C25 (as claimed): once the client has aborted the connection of a query or
\* query_range request, no further upstream request is sent for it and no
\* result is written.
C25_AbortStopsTheFanOut ==
    aborted >= 0 =>
        /\ Len(sent) <= aborted
        /\ pc # "done"

\* the places of list that hold series of the signature sig
PlacesOf(list, sig) == {i \in 1..Len(list) : Signature(list[i].metric) = sig}

\* the series of list that have the signature sig, in the order of list
OfSignature(list, sig) ==
    LET Same(x) == Signature(x.metric) = sig IN SelectSeq(list, Same)

HasCommand(s) == "_command" \in DOMAIN s.metric

\* C27 (as claimed): every _command label on a series of a query or
\* query_range response has the value DONT_REMOVE_UNUSED_HISTORICS, whatever
\* command the client sent.
C27_CommandLabelIsTheOverride ==
    Answered =>
        \A s \in Elems(response) : HasCommand(s) => s.metric["_command"] = OVERRIDE

\* C27 (amended): every _command label on a series of a response holds the
\* command the client sent, whatever token that is; the raw series of a
\* response all carry it when the client sent one, and no series carries the
\* label when the client sent none.
C27_CommandLabelIsTheClientsCommand ==
    Answered =>
        \A s \in Elems(response) :
            /\ HasCommand(s) => (command # "" /\ s.metric["_command"] = command)
            /\ (command # "" /\ TfOf(s) \in RawTfs) => HasCommand(s)

C27_Witness ==
    /\ Answered
    /\ command = "dryRun"
    /\ \E s \in Elems(response) : HasCommand(s) /\ s.metric["_command"] = "dryRun"

\* C28 (as claimed): the query string built from a multimap parses back to
\* that multimap: the same keys, each with the same values in the same order.
C28_QueryStringRoundTrips ==
    ppc = "done" => pout = pin

\* the values v for which the match[] entry e is, as a whole, name="v"
EntryValues(e, name) ==
    {m.value : m \in {x \in EntryChoices : x.name = name /\ MatcherText(x) = e}}

IsSelectorEntry(e) ==
    EntryValues(e, "chrono_timeframe") \cup EntryValues(e, "_command") # {}

NotSelectorEntry(e) == ~IsSelectorEntry(e)

\* the values the entries of the list vs give the selector name
ValuesIn(vs, name) == UNION {EntryValues(vs[i], name) : i \in 1..Len(vs)}

\* C29 (as claimed): after selector extraction match[] holds no entry that is
\* as a whole chrono_timeframe="v" or _command="v", it holds every other entry
\* once and in the original order, and a selector that has an entry in
\* match[] takes its value from such an entry, not from the query.
C29_SelectorEntriesLeaveMatch ==
    ppc = "done" =>
        LET vs == pin["match[]"]
            left == pout.vals["match[]"]
        IN /\ \A i \in 1..Len(left) : NotSelectorEntry(left[i])
           /\ left = SelectSeq(vs, NotSelectorEntry)
           /\ ValuesIn(vs, "chrono_timeframe") # {} =>
                 pout.tf \in ValuesIn(vs, "chrono_timeframe")
           /\ ValuesIn(vs, "_command") # {} => pout.cmd \in ValuesIn(vs, "_command")

\* C30 (as claimed): when the caller reads the slice fetchWindowsRange
\* returned, every place of it still holds the series the request fetched
\* for it: none was cleared, none overwritten by another request.
C30_ReturnedPoolIsIntact ==
    \A r \in 1..MaxConcurrent :
        rq[r].pc = "returned" =>
            \A k \in 1..rq[r].len : bufs[rq[r].buf][k] = SeriesOf(r, k)

====
